---- MODULE Spec2Model ----
(***************************************************************************)
(* Model of the valuation engine, class EquityValuation of                 *)
(* src/valuation_functions.py.                                             *)
(*                                                                         *)
(* Numbers.  The program computes with Python floats and numpy float64.    *)
(* The model computes with exact rationals of unbounded size (numerator    *)
(* and denominator are kept as sequences of base-10000 digits because the  *)
(* default five-year DCF at the fallback WACC of 0.09 already needs        *)
(* 109^5 > 2^31), extended by the IEEE values inf, -inf and nan.  Rounding *)
(* error and the sign of zero are not modelled.  Every number carries the  *)
(* flag np: a numpy float64 (statement cells, regression results and       *)
(* everything computed from them) divides by zero to inf/nan, a plain      *)
(* Python number raises ZeroDivisionError.                                 *)
(*                                                                         *)
(* Exceptions.  A raised exception is the value Exc(kind); the arithmetic  *)
(* operators propagate it, and each try/except of the source is the place  *)
(* where it is turned into the handler's return value.                     *)
(*                                                                         *)
(* Local variables.  A method is modelled by a chain of operators, one per *)
(* group of statements; each passes the locals assigned so far to the next *)
(* as parameters, so that every local is computed once, in source order.   *)
(***************************************************************************)
EXTENDS Integers, Sequences, FiniteSets, TLC

(***************************************************************************)
(* Natural numbers of arbitrary size: little-endian digit sequences.       *)
(***************************************************************************)
Base == 10000

RECURSIVE BFromInt(_)
BFromInt(n) == IF n = 0 THEN << >> ELSE <<n % Base>> \o BFromInt(n \div Base)

RECURSIVE BTrim(_)
BTrim(a) == IF a = << >> THEN a
            ELSE IF a[Len(a)] = 0 THEN BTrim(SubSeq(a, 1, Len(a) - 1)) ELSE a

BShift(a) == IF a = << >> THEN a ELSE <<0>> \o a

RECURSIVE BAddC(_, _, _)
BAddC(a, b, c) ==
    IF a = << >> /\ b = << >> THEN (IF c = 0 THEN << >> ELSE <<c>>)
    ELSE LET x == IF a = << >> THEN 0 ELSE Head(a)
             y == IF b = << >> THEN 0 ELSE Head(b)
             s == x + y + c
         IN  <<s % Base>> \o BAddC(IF a = << >> THEN a ELSE Tail(a),
                                   IF b = << >> THEN b ELSE Tail(b), s \div Base)

BAdd(a, b) == BAddC(a, b, 0)

RECURSIVE BSubB(_, _, _)
BSubB(a, b, c) ==
    IF a = << >> THEN << >>
    ELSE LET y == IF b = << >> THEN 0 ELSE Head(b)
             s == Head(a) - y - c
         IN  <<s % Base>> \o BSubB(Tail(a), IF b = << >> THEN b ELSE Tail(b),
                                   IF s < 0 THEN 1 ELSE 0)

\* a - b for a >= b
BSub(a, b) == BTrim(BSubB(a, b, 0))

RECURSIVE BCmpAt(_, _, _)
BCmpAt(a, b, i) == IF i = 0 THEN 0
                   ELSE IF a[i] < b[i] THEN -1
                   ELSE IF a[i] > b[i] THEN 1
                   ELSE BCmpAt(a, b, i - 1)

BCmp(a, b) == IF Len(a) < Len(b) THEN -1
              ELSE IF Len(a) > Len(b) THEN 1
              ELSE BCmpAt(a, b, Len(a))

RECURSIVE BMulSmallC(_, _, _)
BMulSmallC(a, k, c) ==
    IF a = << >> THEN (IF c = 0 THEN << >> ELSE <<c>>)
    ELSE LET s == Head(a) * k + c
         IN  <<s % Base>> \o BMulSmallC(Tail(a), k, s \div Base)

BMulSmall(a, k) == IF k = 0 THEN << >> ELSE BMulSmallC(a, k, 0)

RECURSIVE BMul(_, _)
BMul(a, b) == IF b = << >> \/ a = << >> THEN << >>
              ELSE IF b = <<1>> THEN a
              ELSE IF a = <<1>> THEN b
              ELSE BAdd(BMulSmall(a, Head(b)), BShift(BMul(a, Tail(b))))

\* the largest k in lo..hi with k*b <= r
RECURSIVE BDigit(_, _, _, _)
BDigit(r, b, lo, hi) ==
    IF lo = hi THEN lo
    ELSE LET mid == (lo + hi + 1) \div 2
         IN  IF BCmp(BMulSmall(b, mid), r) <= 0 THEN BDigit(r, b, mid, hi)
             ELSE BDigit(r, b, lo, mid - 1)

RECURSIVE BDivModAt(_, _, _, _, _)

\* the digit k found, the remainder goes on as r1 - k*b
BDivModNext(a, b, i, q, r1, k) ==
    BDivModAt(a, b, i - 1, <<k>> \o q, IF k = 0 THEN r1 ELSE BSub(r1, BMulSmall(b, k)))

\* the next digit of the quotient, r1 being the remainder so far
BDivModStep(a, b, i, q, r1) ==
    BDivModNext(a, b, i, q, r1,
                IF BCmp(r1, b) < 0 THEN 0 ELSE BDigit(r1, b, 1, Base - 1))

BDivModAt(a, b, i, q, r) ==
    IF i = 0 THEN <<BTrim(q), r>>
    ELSE BDivModStep(a, b, i, q, BTrim(<<a[i]>> \o r))

\* <<quotient, remainder>> of a by b, b > 0
BDivMod(a, b) == BDivModAt(a, b, Len(a), << >>, << >>)

RECURSIVE IGcd(_, _)
IGcd(a, b) == IF b = 0 THEN a ELSE IGcd(b, a % b)

BSmall(a) == Len(a) <= 2

BToInt(a) == IF a = << >> THEN 0 ELSE IF Len(a) = 1 THEN a[1] ELSE a[1] + Base * a[2]

RECURSIVE BGcd(_, _)
BGcd(a, b) == IF b = << >> THEN a
              ELSE IF BSmall(a) /\ BSmall(b) THEN BFromInt(IGcd(BToInt(a), BToInt(b)))
              ELSE BGcd(b, BDivMod(a, b)[2])

BQuot(a, g) == IF g = <<1>> THEN a
               ELSE IF BSmall(a) /\ BSmall(g) THEN BFromInt(BToInt(a) \div BToInt(g))
               ELSE BDivMod(a, g)[1]

(***************************************************************************)
(* Rationals in lowest terms: sign s, numerator n, denominator d.          *)
(***************************************************************************)
QZero == [s |-> 0, n |-> << >>, d |-> <<1>>]

QNormBy(s, n, d, g) == [s |-> s, n |-> BQuot(n, g), d |-> BQuot(d, g)]

QNorm(s, n, d) ==
    IF n = << >> \/ s = 0 THEN QZero ELSE QNormBy(s, n, d, BGcd(n, d))

\* the rational a/b of two machine integers, b > 0
Q(a, b) == QNorm(IF a < 0 THEN -1 ELSE IF a = 0 THEN 0 ELSE 1,
                 BFromInt(IF a < 0 THEN -a ELSE a), BFromInt(b))

QNeg(x) == [x EXCEPT !.s = -x.s]

QMulBy(x, y, g1, g2) ==
    [s |-> x.s * y.s,
     n |-> BMul(BQuot(x.n, g1), BQuot(y.n, g2)),
     d |-> BMul(BQuot(x.d, g2), BQuot(y.d, g1))]

QMul(x, y) ==
    IF x.s = 0 \/ y.s = 0 THEN QZero
    ELSE QMulBy(x, y, BGcd(x.n, y.d), BGcd(y.n, x.d))

\* 1/x for x # 0
QInv(x) == [s |-> x.s, n |-> x.d, d |-> x.n]

\* a/d + b/d or the difference of the two, by the signs xs, ys and by
\* c, the comparison of a with b
QAddSigned(xs, ys, a, b, d, c) ==
    IF xs = ys THEN QNorm(xs, BAdd(a, b), d)
    ELSE IF c = 0 THEN QZero
    ELSE QNorm(IF c > 0 THEN xs ELSE ys,
               IF c > 0 THEN BSub(a, b) ELSE BSub(b, a), d)

QAddTerms(xs, ys, a, b, d) == QAddSigned(xs, ys, a, b, d, BCmp(a, b))

\* xd, yd: the denominators without their common divisor
QAddOver(x, y, xd, yd) ==
    QAddTerms(x.s, y.s, BMul(x.n, yd), BMul(y.n, xd), BMul(x.d, yd))

QAddBy(x, y, g) == QAddOver(x, y, BQuot(x.d, g), BQuot(y.d, g))

QAdd(x, y) ==
    IF x.s = 0 THEN y ELSE IF y.s = 0 THEN x
    ELSE QAddBy(x, y, BGcd(x.d, y.d))

QSub(x, y) == QAdd(x, QNeg(y))

\* -1, 0, 1 as x < y, x = y, x > y
QCmp(x, y) == IF x.s # y.s THEN (IF x.s < y.s THEN -1 ELSE 1)
              ELSE IF x.s = 0 THEN 0
              ELSE x.s * BCmp(BMul(x.n, y.d), BMul(y.n, x.d))

(***************************************************************************)
(* Python values.  A number is a finite rational or one of inf, -inf, nan  *)
(* (q is QZero for those); np says it is a numpy float64.                  *)
(***************************************************************************)
Mk(t, q, np) == [t |-> t, np |-> np, q |-> q]

Num(a, b) == Mk("num", Q(a, b), FALSE)

NpNum(a, b) == Mk("num", Q(a, b), TRUE)

NaN == Mk("nan", QZero, FALSE)

NpNaN == Mk("nan", QZero, TRUE)

None == [t |-> "none"]

Str(s) == [t |-> "str", v |-> s]

Exc(kind) == [t |-> "exc", e |-> kind]

IsExc(v) == v.t = "exc"

IsNumber(v) == v.t \in {"num", "inf", "ninf", "nan"}

IsFinite(v) == v.t = "num"

\* -1, 0, 1 for a number other than nan
Sign(a) == IF a.t = "num" THEN a.q.s ELSE IF a.t = "inf" THEN 1 ELSE -1

Special(sgn) == IF sgn = 0 THEN "nan" ELSE IF sgn > 0 THEN "inf" ELSE "ninf"

(***************************************************************************)
(* IEEE-754 arithmetic on the kinds (the np flag is set by the callers).   *)
(***************************************************************************)
IeeeNeg(a) == IF a.t = "num" THEN Mk("num", QNeg(a.q), a.np)
              ELSE IF a.t = "inf" THEN Mk("ninf", QZero, a.np)
              ELSE IF a.t = "ninf" THEN Mk("inf", QZero, a.np)
              ELSE a

IeeeAdd(a, b, np) ==
    IF a.t = "nan" \/ b.t = "nan" THEN Mk("nan", QZero, np)
    ELSE IF a.t = "num" /\ b.t = "num" THEN Mk("num", QAdd(a.q, b.q), np)
    ELSE IF a.t = "num" THEN Mk(b.t, QZero, np)
    ELSE IF b.t = "num" THEN Mk(a.t, QZero, np)
    ELSE IF a.t = b.t THEN Mk(a.t, QZero, np)
    ELSE Mk("nan", QZero, np)

IeeeMul(a, b, np) ==
    IF a.t = "nan" \/ b.t = "nan" THEN Mk("nan", QZero, np)
    ELSE IF a.t = "num" /\ b.t = "num" THEN Mk("num", QMul(a.q, b.q), np)
    ELSE Mk(Special(Sign(a) * Sign(b)), QZero, np)

IeeeDiv(a, b, np) ==
    IF a.t = "nan" \/ b.t = "nan" THEN Mk("nan", QZero, np)
    ELSE IF b.t = "num"
         THEN IF b.q.s = 0 THEN Mk(Special(Sign(a)), QZero, np)
              ELSE IF a.t = "num" THEN Mk("num", QMul(a.q, QInv(b.q)), np)
              ELSE Mk(Special(Sign(a) * Sign(b)), QZero, np)
    ELSE IF a.t = "num" THEN Mk("num", QZero, np)
    ELSE Mk("nan", QZero, np)

\* -1, 0, 1 for two numbers neither of which is nan
IeeeCmp(a, b) ==
    IF a.t = "num" /\ b.t = "num" THEN QCmp(a.q, b.q)
    ELSE IF a.t = b.t THEN 0
    ELSE IF a.t = "ninf" \/ b.t = "inf" THEN -1
    ELSE 1

(***************************************************************************)
(* The Python operators + - * / ** and > < on values that may be None, a   *)
(* string or an exception already raised by a subexpression.               *)
(***************************************************************************)
PyAdd(a, b) == IF IsExc(a) THEN a ELSE IF IsExc(b) THEN b
               ELSE IF ~(IsNumber(a) /\ IsNumber(b)) THEN Exc("TypeError")
               ELSE IeeeAdd(a, b, a.np \/ b.np)

PySub(a, b) == IF IsExc(a) THEN a ELSE IF IsExc(b) THEN b
               ELSE IF ~(IsNumber(a) /\ IsNumber(b)) THEN Exc("TypeError")
               ELSE IeeeAdd(a, IeeeNeg(b), a.np \/ b.np)

PyMul(a, b) == IF IsExc(a) THEN a ELSE IF IsExc(b) THEN b
               ELSE IF ~(IsNumber(a) /\ IsNumber(b)) THEN Exc("TypeError")
               ELSE IeeeMul(a, b, a.np \/ b.np)

\* float64 division follows IEEE, division of plain Python numbers raises
PyDiv(a, b) == IF IsExc(a) THEN a ELSE IF IsExc(b) THEN b
               ELSE IF ~(IsNumber(a) /\ IsNumber(b)) THEN Exc("TypeError")
               ELSE IF b.t = "num" /\ b.q.s = 0 /\ ~(a.np \/ b.np)
                    THEN Exc("ZeroDivisionError")
               ELSE IeeeDiv(a, b, a.np \/ b.np)

\* a ** k for an integer k >= 0
RECURSIVE PyPow(_, _)
PyPow(a, k) == IF IsExc(a) THEN a
               ELSE IF ~IsNumber(a) THEN Exc("TypeError")
               ELSE IF k = 0 THEN Mk("num", Q(1, 1), a.np)
               ELSE IF k = 1 THEN a
               ELSE PyMul(a, PyPow(a, k - 1))

Bool(b) == [t |-> "bool", b |-> b]

\* a > b: Bool(truth value), or the exception the comparison raises
PyGt(a, b) == IF IsExc(a) THEN a ELSE IF IsExc(b) THEN b
              ELSE IF ~(IsNumber(a) /\ IsNumber(b)) THEN Exc("TypeError")
              ELSE IF a.t = "nan" \/ b.t = "nan" THEN Bool(FALSE)
              ELSE Bool(IeeeCmp(a, b) > 0)

PyLt(a, b) == PyGt(b, a)

\* bool(v): None, 0 and nan-free zero are false
Truthy(v) == IF v.t = "none" THEN FALSE
             ELSE IF v.t = "num" THEN v.q.s # 0
             ELSE IF v.t = "str" THEN v.v # ""
             ELSE TRUE

(***************************************************************************)
(* The instance.  info, cash_flow and price_data are attributes that       *)
(* exist only once get_financial_data has run; Unset stands for a missing  *)
(* attribute, whose read raises AttributeError.                            *)
(***************************************************************************)
Unset == [t |-> "unset"]

risk_free_rate == Num(45, 1000)

market_return == Num(9, 100)

\* self.info.get(key, default)
InfoGet(info, key, default) ==
    IF info = Unset THEN Exc("AttributeError")
    ELSE IF key \in DOMAIN info THEN info[key]
    ELSE default

\* self.cash_flow.loc[item, :].iloc[0]
Loc(cash_flow, item) ==
    IF cash_flow = Unset THEN Exc("AttributeError")
    ELSE IF item \notin DOMAIN cash_flow THEN Exc("KeyError")
    ELSE IF cash_flow[item] = << >> THEN Exc("IndexError")
    ELSE cash_flow[item][1]

EmptyDict == [k \in {} |-> None]

\* some statement of a try block raised
Raised(vals) == \E i \in 1..Len(vals) : IsExc(vals[i])

\* the exception of the first statement that raised
FirstRaised(vals) ==
    vals[CHOOSE i \in 1..Len(vals) :
            IsExc(vals[i]) /\ \A j \in 1..(i - 1) : ~IsExc(vals[j])]

\* a try body: the exception of the first statement that raised, or result
TryBody(vals, result) == IF Raised(vals) THEN FirstRaised(vals) ELSE result

(***************************************************************************)
(* calculate_wacc(beta, cost_of_debt=None, tax_rate=0.34)                  *)
(***************************************************************************)
default_tax_rate == Num(34, 100)

\* a fallback whose cost of equity repeats the WACC
WaccFallbackSameRates == [wacc |-> Num(9, 100), cost_of_equity |-> Num(9, 100),
                          cost_of_debt |-> Num(6, 100)]

WaccFallback == [wacc |-> Num(9, 100), cost_of_equity |-> Num(10, 100),
                 cost_of_debt |-> Num(6, 100)]

\* line 141: interest_expense / total_debt if total_debt > 0 else 0.06
CostOfDebtIf(interest_expense, total_debt, positive) ==
    IF IsExc(interest_expense) THEN interest_expense
    ELSE IF IsExc(positive) THEN positive
    ELSE IF positive.b THEN PyDiv(interest_expense, total_debt)
    ELSE Num(6, 100)

CostOfDebtOf(interest_expense, total_debt) ==
    CostOfDebtIf(interest_expense, total_debt, PyGt(total_debt, Num(0, 1)))

\* lines 138-141: the cost of debt used when none is supplied
EstimatedCostOfDebt(info) ==
    CostOfDebtOf(InfoGet(info, "interestExpense", Num(0, 1)),
                 InfoGet(info, "totalDebt", Num(1, 1)))

\* line 148
EquityWeight(market_cap, total_debt) ==
    PyDiv(market_cap, PyAdd(market_cap, total_debt))

\* the debt weight taken against the equity alone
DebtWeightOverEquity(market_cap, total_debt) ==
    PyDiv(total_debt, market_cap)

\* line 149
DebtWeight(market_cap, total_debt) ==
    PyDiv(total_debt, PyAdd(market_cap, total_debt))

\* lines 152-161: the WACC and the dict returned
WaccResult(cost_of_equity, cost_of_debt, market_cap, total_debt, equity_weight, debt_weight, wacc) ==
    TryBody(<<cost_of_equity, cost_of_debt, market_cap, total_debt,
              equity_weight, debt_weight, wacc>>,
            [wacc |-> wacc, cost_of_equity |-> cost_of_equity,
             cost_of_debt |-> cost_of_debt, equity_weight |-> equity_weight,
             debt_weight |-> debt_weight])

\* lines 152-153
WaccWeighted(cost_of_equity, cost_of_debt, market_cap, total_debt, equity_weight, debt_weight, tax_rate) ==
    WaccResult(cost_of_equity, cost_of_debt, market_cap, total_debt,
               equity_weight, debt_weight,
               PyAdd(PyMul(equity_weight, cost_of_equity),
                     PyMul(PyMul(debt_weight, cost_of_debt),
                           PySub(Num(1, 1), tax_rate))))

\* lines 148-149
WaccWeights(cost_of_equity, cost_of_debt, market_cap, total_debt, tax_rate) ==
    WaccWeighted(cost_of_equity, cost_of_debt, market_cap, total_debt,
                 EquityWeight(market_cap, total_debt),
                 DebtWeight(market_cap, total_debt), tax_rate)

\* lines 134-161, the body of the try block: the dict returned, or the
\* exception raised
WaccBody(info, beta, cost_of_debt_arg, tax_rate) ==
    WaccWeights(PyAdd(risk_free_rate,
                      PyMul(beta, PySub(market_return, risk_free_rate))),
                IF cost_of_debt_arg = None THEN EstimatedCostOfDebt(info)
                ELSE cost_of_debt_arg,
                InfoGet(info, "marketCap", Num(1, 1)),
                InfoGet(info, "totalDebt", Num(0, 1)),
                tax_rate)

\* lines 162-163: the bare except returns the fixed default
WaccOrFallback(body) == IF "wacc" \in DOMAIN body THEN body ELSE WaccFallback

\* lines 133-163
calculate_wacc(info, beta, cost_of_debt_arg, tax_rate) ==
    WaccOrFallback(WaccBody(info, beta, cost_of_debt_arg, tax_rate))

(***************************************************************************)
(* calculate_beta(benchmark='^BVSP', period='3y').  A price history is a   *)
(* sequence of rows [date, Close] in date order, as the provider returned  *)
(* it; hist_stock and hist_bench are the two histories fetched.            *)
(***************************************************************************)
BetaFallback == [beta |-> Num(1, 1), alpha |-> Num(0, 1), r_squared |-> Num(0, 1)]

\* dropna(): the row of a return, none when the return is nan
ReturnRow(date, r) == IF r.t = "nan" THEN << >> ELSE <<[date |-> date, v |-> r]>>

\* history['Close'].pct_change().dropna(): rows [date, v]
RECURSIVE PctChange(_, _)
PctChange(hist, i) ==
    IF i > Len(hist) THEN << >>
    ELSE ReturnRow(hist[i].date,
                   PySub(PyDiv(hist[i].Close, hist[i - 1].Close), Num(1, 1)))
         \o PctChange(hist, i + 1)

Returns(hist) == PctChange(hist, 2)

\* pd.concat([stock, bench], axis=1, join='inner'): rows [stock, benchmark]
RECURSIVE InnerJoin(_, _)
InnerJoin(stock, bench) ==
    IF stock = << >> THEN << >>
    ELSE LET hit == {j \in 1..Len(bench) : bench[j].date = Head(stock).date}
         IN  (IF hit = {} THEN << >>
              ELSE <<[stock |-> Head(stock).v,
                      benchmark |-> bench[CHOOSE j \in hit : TRUE].v]>>)
             \o InnerJoin(Tail(stock), bench)

RECURSIVE SumSeq(_)
SumSeq(xs) == IF xs = << >> THEN NpNum(0, 1) ELSE PyAdd(Head(xs), SumSeq(Tail(xs)))

Mean(xs) == PyDiv(SumSeq(xs), NpNum(Len(xs), 1))

\* sum of (x[i] - mx) * (y[i] - my)
CoSum(xs, ys, mx, my) ==
    SumSeq([i \in 1..Len(xs) |-> PyMul(PySub(xs[i], mx), PySub(ys[i], my))])

\* Series.var(): the sample variance, nan for a single observation
Var(xs) == PyDiv(CoSum(xs, xs, Mean(xs), Mean(xs)), NpNum(Len(xs) - 1, 1))

\* the fitted line
LinRegressLine(xmean, ymean, slope) ==
    [t |-> "fit", slope |-> slope, intercept |-> PySub(ymean, PyMul(slope, xmean))]

\* slope = ssxym / ssxm
LinRegressSlope(xmean, ymean, ssxm, ssxym) ==
    LinRegressLine(xmean, ymean, PyDiv(ssxym, ssxm))

\* the covariances about the means
LinRegressMoments(xs, ys, xmean, ymean, n) ==
    LinRegressSlope(xmean, ymean, PyDiv(CoSum(xs, xs, xmean, xmean), n),
                    PyDiv(CoSum(xs, ys, xmean, ymean), n))

\* scipy.stats.linregress(x, y): <<slope, intercept>>, or the ValueError
\* raised for empty input or for x values that are all identical
LinRegress(xs, ys) ==
    IF xs = << >> THEN Exc("ValueError")
    ELSE IF Len(xs) > 1 /\ \A i \in 1..Len(xs) : xs[i] = xs[1] THEN Exc("ValueError")
    ELSE LinRegressMoments(xs, ys, Mean(xs), Mean(ys), NpNum(Len(xs), 1))

\* lines 116-120: the dict returned
BetaResult(bench, stock, fit) ==
    IF IsExc(fit) THEN fit
    ELSE [beta |-> fit.slope, alpha |-> fit.intercept,
          r_squared |-> PyMul(PyPow(fit.slope, 2), PyDiv(Var(bench), Var(stock)))]

\* lines 111-114
BetaFit(bench, stock) == BetaResult(bench, stock, LinRegress(bench, stock))

\* lines 107-114: the two columns of the aligned returns
BetaAligned(aligned) ==
    BetaFit([i \in 1..Len(aligned) |-> aligned[i].benchmark],
            [i \in 1..Len(aligned) |-> aligned[i].stock])

\* lines 101-120, the body of the try block
BetaBody(hist_stock, hist_bench) ==
    BetaAligned(InnerJoin(Returns(hist_stock), Returns(hist_bench)))

\* lines 121-122: the bare except returns the neutral default
BetaOrFallback(body) == IF "beta" \in DOMAIN body THEN body ELSE BetaFallback

\* lines 100-122
calculate_beta(hist_stock, hist_bench) ==
    BetaOrFallback(BetaBody(hist_stock, hist_bench))

(***************************************************************************)
(* dcf_valuation(growth_rate=0.05, terminal_growth=0.03, years=5).         *)
(* A run yields val, the value returned, calls, the log of the calls it    *)
(* made to calculate_beta and calculate_wacc, and locals, the values its   *)
(* local variables had when it returned.                                   *)
(***************************************************************************)
default_growth_rate == Num(5, 100)

default_terminal_growth == Num(3, 100)

default_years == 5

\* lines 186-189: fcff_projections
FcffProjections(fcff, growth_rate, years) ==
    [year \in 1..years |-> PyMul(fcff, PyPow(PyAdd(Num(1, 1), growth_rate), year))]

\* lines 196-199: present_values
PresentValues(fcff_projections, wacc) ==
    [j \in 1..Len(fcff_projections) |->
        PyDiv(fcff_projections[j], PyPow(PyAdd(Num(1, 1), wacc), j))]

\* sum(present_values)
RECURSIVE PySum(_, _)
PySum(xs, acc) == IF xs = << >> THEN acc ELSE PySum(Tail(xs), PyAdd(acc, Head(xs)))

\* lines 214-221: the dict returned, or the first exception raised
DcfResult(fcff, wacc, terminal_value, enterprise_value, equity_value, shares, intrinsic_value, margin_of_safety) ==
    [locals |-> [wacc |-> wacc, terminal_value |-> terminal_value,
                 enterprise_value |-> enterprise_value,
                 equity_value |-> equity_value, shares |-> shares,
                 intrinsic_value |-> intrinsic_value],
     val |-> TryBody(<<terminal_value, enterprise_value, equity_value, shares,
                       intrinsic_value, margin_of_safety>>,
                     [intrinsic_value |-> intrinsic_value,
                      enterprise_value |-> enterprise_value,
                      equity_value |-> equity_value, current_fcff |-> fcff,
                      wacc |-> wacc, margin_of_safety |-> margin_of_safety])]

\* line 220: margin_of_safety
DcfMargin(info, fcff, wacc, terminal_value, enterprise_value, equity_value, shares, intrinsic_value) ==
    DcfResult(fcff, wacc, terminal_value, enterprise_value, equity_value, shares,
              intrinsic_value,
              PyMul(PyDiv(PySub(intrinsic_value,
                                InfoGet(info, "currentPrice", Num(0, 1))),
                          intrinsic_value), Num(100, 1)))

\* line 212: intrinsic_value
DcfPerShare(info, fcff, wacc, terminal_value, enterprise_value, equity_value, shares) ==
    DcfMargin(info, fcff, wacc, terminal_value, enterprise_value, equity_value,
              shares, PyDiv(equity_value, shares))

\* lines 207-211: net_debt, equity_value and shares
DcfEquity(info, fcff, wacc, terminal_value, enterprise_value) ==
    DcfPerShare(info, fcff, wacc, terminal_value, enterprise_value,
                PySub(enterprise_value,
                      PySub(InfoGet(info, "totalDebt", Num(0, 1)),
                            InfoGet(info, "cash", Num(0, 1)))),
                InfoGet(info, "sharesOutstanding", Num(1, 1)))

\* lines 196-204: the present values and enterprise_value
DcfEnterprise(info, fcff, wacc, years, fcff_projections, terminal_value) ==
    DcfEquity(info, fcff, wacc, terminal_value,
              PyAdd(PySum(PresentValues(fcff_projections, wacc), Num(0, 1)),
                    PyDiv(terminal_value, PyPow(PyAdd(Num(1, 1), wacc), years))))

\* lines 192-193: terminal_fcff and terminal_value
DcfTerminal(info, fcff, wacc, terminal_growth, years, fcff_projections) ==
    DcfEnterprise(info, fcff, wacc, years, fcff_projections,
                  PyDiv(IF years < 1 THEN Exc("IndexError")
                        ELSE PyMul(fcff_projections[years],
                                   PyAdd(Num(1, 1), terminal_growth)),
                        PySub(wacc, terminal_growth)))

\* lines 185-221, from the projection to the dict returned
DcfBody(info, fcff, wacc, growth_rate, terminal_growth, years) ==
    DcfTerminal(info, fcff, wacc, terminal_growth, years,
                FcffProjections(fcff, growth_rate, years))

\* the run of the try block once its calls have returned
DcfRun(beta_data, wacc_data, body) ==
    [val    |-> body.val,
     calls  |-> <<[fn |-> "calculate_beta", ret |-> beta_data],
                  [fn |-> "calculate_wacc", beta |-> beta_data.beta,
                   ret |-> wacc_data]>>,
     locals |-> body.locals]

\* line 183: wacc = wacc_data['wacc']
DcfWithWacc(info, fcff, growth_rate, terminal_growth, years, beta_data, wacc_data) ==
    DcfRun(beta_data, wacc_data,
           DcfBody(info, fcff, wacc_data.wacc, growth_rate, terminal_growth, years))

\* line 182: wacc_data = self.calculate_wacc(beta_data['beta'])
DcfWithBeta(info, fcff, growth_rate, terminal_growth, years, beta_data) ==
    DcfWithWacc(info, fcff, growth_rate, terminal_growth, years, beta_data,
                calculate_wacc(info, beta_data.beta, None, default_tax_rate))

\* lines 178-181: only when the FCFF was computed are the histories fetched
\* and beta estimated
DcfWithFcff(info, hist_stock, hist_bench, growth_rate, terminal_growth, years, fcff) ==
    IF IsExc(fcff) THEN [val |-> fcff, calls |-> << >>, locals |-> EmptyDict]
    ELSE DcfWithBeta(info, fcff, growth_rate, terminal_growth, years,
                     calculate_beta(hist_stock, hist_bench))

\* lines 175-221, the body of the try block: val is the dict returned or
\* the exception raised
DcfTry(info, cash_flow, hist_stock, hist_bench, growth_rate, terminal_growth, years) ==
    DcfWithFcff(info, hist_stock, hist_bench, growth_rate, terminal_growth, years,
                PyAdd(Loc(cash_flow, "Operating Cash Flow"),
                      Loc(cash_flow, "Capital Expenditure")))

\* lines 223-225: any exception makes the call return None
DcfOrNone(run) ==
    [run EXCEPT !.val = IF "intrinsic_value" \in DOMAIN @ THEN @ ELSE None]

\* dcf_valuation without its try/except: what is raised inside reaches
\* the caller
dcf_valuation_unguarded(info, cash_flow, hist_stock, hist_bench, growth_rate, terminal_growth, years) ==
    DcfTry(info, cash_flow, hist_stock, hist_bench, growth_rate, terminal_growth, years)

\* lines 165-225
dcf_valuation(info, cash_flow, hist_stock, hist_bench, growth_rate, terminal_growth, years) ==
    DcfOrNone(DcfTry(info, cash_flow, hist_stock, hist_bench, growth_rate,
                     terminal_growth, years))

(***************************************************************************)
(* calculate_financial_ratios().  The assignments of lines 56-85 in order: *)
(* the ratio name, the info key and how the value is formed.               *)
(***************************************************************************)
RatioTable == <<
    <<"current_price", "currentPrice", "plain">>,
    <<"market_cap", "marketCap", "plain">>,
    <<"shares_outstanding", "sharesOutstanding", "plain">>,
    <<"roe", "returnOnEquity", "pct">>,
    <<"roa", "returnOnAssets", "pct">>,
    <<"gross_margin", "grossMargins", "pct">>,
    <<"operating_margin", "operatingMargins", "pct">>,
    <<"profit_margin", "profitMargins", "pct">>,
    <<"pe_ratio", "trailingPE", "plain">>,
    <<"forward_pe", "forwardPE", "plain">>,
    <<"pb_ratio", "priceToBook", "plain">>,
    <<"ps_ratio", "priceToSalesTrailing12Months", "plain">>,
    <<"ev_ebitda", "enterpriseToEbitda", "plain">>,
    <<"ev_revenue", "enterpriseToRevenue", "plain">>,
    <<"current_ratio", "currentRatio", "plain">>,
    <<"quick_ratio", "quickRatio", "plain">>,
    <<"debt_equity", "debtToEquity", "plain">>,
    <<"debt_ebitda", "debtToEbitda", "plain">>,
    <<"dividend_yield", "dividendYield", "yield">>,
    <<"payout_ratio", "payoutRatio", "pct">> >>

\* line 84: ... * 100 if self.info.get('dividendYield') else 0
YieldValue(raw, present) ==
    IF IsExc(present) THEN present
    ELSE IF Truthy(present) THEN PyMul(raw, Num(100, 1))
    ELSE Num(0, 1)

\* the right-hand side of one assignment
RatioValue(info, key, how) ==
    IF how = "plain" THEN InfoGet(info, key, NaN)
    ELSE IF how = "pct" THEN PyMul(InfoGet(info, key, NaN), Num(100, 1))
    ELSE YieldValue(InfoGet(info, key, NaN), InfoGet(info, key, None))

RECURSIVE RatiosFrom(_, _, _)

\* the assignments without their try/except: what is raised reaches the
\* caller
RatioStoreUnguarded(info, i, ratios, v) ==
    IF IsExc(v) THEN v
    ELSE RatiosFrom(info, i + 1, (RatioTable[i][1] :> v) @@ ratios)

\* ratios[name] = v, unless v raised: the try block ends and the ratios
\* stored so far are returned
RatioStore(info, i, ratios, v) ==
    IF IsExc(v) THEN ratios
    ELSE RatiosFrom(info, i + 1, (RatioTable[i][1] :> v) @@ ratios)

\* the assignments from the i-th on
RatiosFrom(info, i, ratios) ==
    IF i > Len(RatioTable) THEN ratios
    ELSE RatioStore(info, i, ratios,
                    RatioValue(info, RatioTable[i][2], RatioTable[i][3]))

calculate_financial_ratios(info) == RatiosFrom(info, 1, EmptyDict)

(***************************************************************************)
(* get_summary().  hist1 is the pair of histories fetched by the           *)
(* calculate_beta call inside dcf_valuation, hist2 the pair fetched by the *)
(* call of line 275.                                                       *)
(***************************************************************************)
\* the thresholds taken inclusively
RecommendationInclusive(discount) ==
    IF ~PyLt(discount, Num(20, 1)).b /\ discount.t # "nan"
    THEN [recommendation |-> Str("COMPRAR"), recommendation_color |-> Str("green")]
    ELSE IF ~PyLt(discount, Num(10, 1)).b /\ discount.t # "nan"
    THEN [recommendation |-> Str("ACUMULAR"), recommendation_color |-> Str("lightgreen")]
    ELSE IF ~PyGt(discount, Num(-20, 1)).b /\ discount.t # "nan"
    THEN [recommendation |-> Str("VENDER"), recommendation_color |-> Str("red")]
    ELSE IF ~PyGt(discount, Num(-10, 1)).b /\ discount.t # "nan"
    THEN [recommendation |-> Str("REDUZIR"), recommendation_color |-> Str("orange")]
    ELSE [recommendation |-> Str("NEUTRO"), recommendation_color |-> Str("yellow")]

\* lines 286-300
Recommendation(discount) ==
    IF PyGt(discount, Num(20, 1)).b
    THEN [recommendation |-> Str("COMPRAR"), recommendation_color |-> Str("green")]
    ELSE IF PyGt(discount, Num(10, 1)).b
    THEN [recommendation |-> Str("ACUMULAR"), recommendation_color |-> Str("lightgreen")]
    ELSE IF PyLt(discount, Num(-20, 1)).b
    THEN [recommendation |-> Str("VENDER"), recommendation_color |-> Str("red")]
    ELSE IF PyLt(discount, Num(-10, 1)).b
    THEN [recommendation |-> Str("REDUZIR"), recommendation_color |-> Str("orange")]
    ELSE [recommendation |-> Str("NEUTRO"), recommendation_color |-> Str("yellow")]

\* dict.get(key, default)
DictGet(d, key, default) == IF key \in DOMAIN d THEN d[key] ELSE default

\* lines 286-300: the summary with discount and recommendation added
Recommended(summary, discount) ==
    IF IsExc(discount) THEN discount
    ELSE Recommendation(discount) @@ [discount |-> discount] @@ summary

\* lines 282-283
RecommendIf(summary, current_price, intrinsic_value, positive) ==
    IF IsExc(current_price) THEN current_price
    ELSE IF IsExc(positive) THEN positive
    ELSE IF ~positive.b THEN summary
    ELSE Recommended(summary,
                     PyMul(PyDiv(PySub(intrinsic_value, current_price),
                                 current_price), Num(100, 1)))

RecommendFor(summary, current_price, intrinsic_value) ==
    RecommendIf(summary, current_price, intrinsic_value,
                PyGt(intrinsic_value, Num(0, 1)))

\* lines 278-300: the summary with the recommendation added, or the
\* exception raised
Recommend(info, summary) ==
    RecommendFor(summary, InfoGet(info, "currentPrice", Num(0, 1)),
                 DictGet(summary, "intrinsic_value", Num(0, 1)))

\* lines 270-302: the ratios, the second beta and the recommendation
SummaryRun(info, with_dcf, dcf, ratios, beta_data) ==
    [val   |-> Recommend(info, beta_data @@ ratios @@ with_dcf),
     calls |-> <<[fn |-> "dcf_valuation", ret |-> dcf.val]>> \o dcf.calls
               \o <<[fn |-> "calculate_financial_ratios", ret |-> ratios],
                    [fn |-> "calculate_beta", ret |-> beta_data]>>]

\* lines 266-276: summary.update(dcf) only if dcf is not None
SummaryWithDcf(info, identity, hist2_stock, hist2_bench, dcf) ==
    SummaryRun(info, IF dcf.val # None THEN dcf.val @@ identity ELSE identity,
               dcf, calculate_financial_ratios(info),
               calculate_beta(hist2_stock, hist2_bench))

\* lines 260-266
SummaryOf(info, cash_flow, hist1_stock, hist1_bench, hist2_stock, hist2_bench, company_name) ==
    IF IsExc(company_name)
    THEN [val |-> company_name, calls |-> << >>]
    ELSE SummaryWithDcf(info,
                        [company_name |-> company_name,
                         sector       |-> InfoGet(info, "sector", Str("N/A")),
                         industry     |-> InfoGet(info, "industry", Str("N/A"))],
                        hist2_stock, hist2_bench,
                        dcf_valuation(info, cash_flow, hist1_stock, hist1_bench,
                                      default_growth_rate, default_terminal_growth,
                                      default_years))

get_summary(info, cash_flow, hist1_stock, hist1_bench, hist2_stock, hist2_bench) ==
    SummaryOf(info, cash_flow, hist1_stock, hist1_bench, hist2_stock, hist2_bench,
              InfoGet(info, "longName", Str("N/A")))

(***************************************************************************)
(* The market-data provider.  What it returns is outside the program: the  *)
(* model draws each response from the finite sets below.                   *)
(***************************************************************************)
Row(date, close_num, close_den) == [date |-> date, Close |-> NpNum(close_num, close_den)]

\* no price rows for the ticker/period
NoRows == << >>

\* benchmark: returns +10%, -10%, 0% on dates 2, 3, 4
BenchHistory == <<Row(1, 100, 1), Row(2, 110, 1), Row(3, 99, 1), Row(4, 99, 1)>>

\* a stock moving against the benchmark: returns -10%, +10% (beta -1)
ContraryHistory == <<Row(1, 100, 1), Row(2, 90, 1), Row(3, 99, 1)>>

\* a stock moving a fifth as much as the benchmark: returns +2%, -2% (beta 0.2)
QuietHistory == <<Row(1, 100, 1), Row(2, 102, 1), Row(3, 9996, 100)>>

StockHistories == {NoRows, ContraryHistory, QuietHistory}

BenchHistories == {NoRows, BenchHistory}

\* a complete fundamentals snapshot
BaseInfo ==
    [longName |-> Str("Acme SA"), sector |-> Str("Industrials"),
     industry |-> Str("Machinery"),
     currentPrice |-> Num(90, 1), marketCap |-> Num(500, 1),
     sharesOutstanding |-> Num(10, 1), totalDebt |-> Num(400, 1),
     cash |-> Num(260, 1), interestExpense |-> Num(0, 1),
     returnOnEquity |-> Num(15, 100), returnOnAssets |-> Num(7, 100),
     grossMargins |-> Num(40, 100), operatingMargins |-> Num(20, 100),
     profitMargins |-> Num(10, 100), trailingPE |-> Num(12, 1),
     forwardPE |-> Num(11, 1), priceToBook |-> Num(2, 1),
     priceToSalesTrailing12Months |-> Num(3, 2), enterpriseToEbitda |-> Num(8, 1),
     enterpriseToRevenue |-> Num(2, 1), currentRatio |-> Num(3, 2),
     quickRatio |-> Num(1, 1), debtToEquity |-> Num(80, 1),
     debtToEbitda |-> Num(2, 1), dividendYield |-> Num(4, 100),
     payoutRatio |-> Num(50, 100)]

Absent == [t |-> "absent"]

\* the values a metric may take instead of its base value; Absent means
\* that the snapshot has no such key
InfoVariants ==
    [currentPrice |-> {Absent, None, Num(0, 1), Num(50, 1), Num(165, 2), Num(85, 1),
                       Num(99, 1), Num(110, 1), Num(115, 1), Num(12375, 100),
                       Num(200, 1)},
     sharesOutstanding |-> {Absent, None, Num(0, 1)},
     totalDebt |-> {Absent, None, Num(0, 1)},
     cash |-> {Absent, None, Num(400, 1)},
     marketCap |-> {Absent, None, Num(0, 1)},
     interestExpense |-> {Absent, None, Num(40, 1)},
     returnOnEquity |-> {Absent, None},
     dividendYield |-> {Absent, None, Num(0, 1)},
     longName |-> {Absent}]

\* the snapshot with one key changed
Edit(info, key, v) ==
    IF v = Absent THEN [k \in DOMAIN info \ {key} |-> info[k]]
    ELSE [k \in DOMAIN info \cup {key} |-> IF k = key THEN v ELSE info[k]]

\* a cash-flow statement: line item -> values per period, latest first
CashFlow(ocf, capex) ==
    [i \in {"Operating Cash Flow", "Capital Expenditure"} |->
        IF i = "Operating Cash Flow" THEN ocf ELSE capex]

BaseCashFlow == CashFlow(<<NpNum(70, 1), NpNum(60, 1)>>, <<NpNum(-50, 1), NpNum(-45, 1)>>)

\* free cash flow of zero
ZeroCashFlow == CashFlow(<<NpNum(50, 1), NpNum(60, 1)>>, <<NpNum(-50, 1), NpNum(-45, 1)>>)

\* statements of dtype object, whose cells are plain Python floats
ObjectCashFlow == CashFlow(<<Num(70, 1)>>, <<Num(-50, 1)>>)

ObjectZeroCashFlow == CashFlow(<<Num(50, 1)>>, <<Num(-50, 1)>>)

CashFlowVariants ==
    {BaseCashFlow, ZeroCashFlow, ObjectCashFlow, ObjectZeroCashFlow,
     \* the latest operating cash flow is not reported
     CashFlow(<<NpNaN, NpNum(60, 1)>>, <<NpNum(-50, 1), NpNum(-45, 1)>>),
     \* a line item missing from the statement
     [i \in {"Capital Expenditure"} |-> BaseCashFlow[i]],
     [i \in {"Operating Cash Flow"} |-> BaseCashFlow[i]],
     \* no statement at all: no rows
     EmptyDict,
     \* rows without any period column
     CashFlow(<< >>, << >>)}

\* snapshots that differ from the base in two places
PairedInfos ==
    {Edit(Edit(BaseInfo, "marketCap", Num(0, 1)), "totalDebt", Num(0, 1)),
     Edit(Edit(BaseInfo, "marketCap", Num(0, 1)), "totalDebt", Absent),
     Edit(Edit(BaseInfo, "marketCap", Absent), "totalDebt", Absent),
     Edit(Edit(BaseInfo, "interestExpense", Num(40, 1)), "totalDebt", Absent),
     Edit(Edit(BaseInfo, "interestExpense", None), "totalDebt", Num(0, 1))}

Infos == {BaseInfo} \cup PairedInfos
         \cup UNION {{Edit(BaseInfo, k, v) : v \in InfoVariants[k]} :
                       k \in DOMAIN InfoVariants}

\* responses that differ from the base in the snapshot and in the statement
PairedResponses ==
    {[info |-> Edit(BaseInfo, "cash", Num(400, 1)), cash_flow |-> ZeroCashFlow],
     [info |-> Edit(BaseInfo, "cash", Num(400, 1)), cash_flow |-> ObjectZeroCashFlow],
     [info |-> Edit(BaseInfo, "sharesOutstanding", Num(0, 1)),
      cash_flow |-> ObjectCashFlow],
     [info |-> Edit(BaseInfo, "currentPrice", Num(0, 1)), cash_flow |-> ObjectCashFlow]}

Fundamentals ==
    {[info |-> i, cash_flow |-> BaseCashFlow] : i \in Infos}
    \cup {[info |-> BaseInfo, cash_flow |-> c] : c \in CashFlowVariants}
    \cup PairedResponses

\* what one get_financial_data call is answered with: price rows together
\* with fundamentals; no price rows for a ticker that has fundamentals (no
\* trades in the period) or for one the provider knows nothing about
Responses ==
    {[history |-> QuietHistory, info |-> f.info, cash_flow |-> f.cash_flow] :
        f \in Fundamentals}
    \cup {[history |-> NoRows, info |-> BaseInfo, cash_flow |-> BaseCashFlow],
          [history |-> NoRows, info |-> EmptyDict, cash_flow |-> EmptyDict]}

(***************************************************************************)
(* Arguments the caller passes.                                            *)
(***************************************************************************)
MaxYears == 1

Periods == {"1y", "5y"}

TerminalGrowths == {default_terminal_growth, Num(5, 100)}

YearsArgs == 1..MaxYears \cup {default_years}

BetaArgs == {Num(1, 1), NpNum(-1, 1), NpNaN}

CostOfDebtArgs == {None, Num(8, 100)}

(***************************************************************************)
(* State: the attributes of the instance, and the call last made with the  *)
(* value it returned or the exception it raised.  The caller is            *)
(* single-threaded and synchronous: it takes the outcome of a call before  *)
(* it makes the next one.                                                  *)
(***************************************************************************)
VARIABLES info, cash_flow, price_data, ret

vars == <<info, cash_flow, price_data, ret>>

Idle == [op |-> "idle"]

\* __init__ sets neither info nor cash_flow nor price_data
Init == /\ info = Unset
        /\ cash_flow = Unset
        /\ price_data = Unset
        /\ ret = Idle

\* get_financial_data(period): stores what the provider returned and
\* returns the price history
GetFinancialData ==
    /\ ret = Idle
    /\ \E period \in Periods, r \in Responses :
          /\ price_data' = r.history
          /\ info' = r.info
          /\ cash_flow' = r.cash_flow
          /\ ret' = [op |-> "get_financial_data", period |-> period,
                      val |-> r.history]

CalculateFinancialRatios ==
    /\ ret = Idle
    /\ ret' = [op |-> "calculate_financial_ratios",
               val |-> calculate_financial_ratios(info)]
    /\ UNCHANGED <<info, cash_flow, price_data>>

CalculateBeta ==
    /\ ret = Idle
    /\ \E hs \in StockHistories, hb \in BenchHistories :
          ret' = [op |-> "calculate_beta", hist_stock |-> hs, hist_bench |-> hb,
                  val |-> calculate_beta(hs, hb)]
    /\ UNCHANGED <<info, cash_flow, price_data>>

CalculateWacc ==
    /\ ret = Idle
    /\ \E beta \in BetaArgs, cost_of_debt \in CostOfDebtArgs :
          \E body \in {WaccBody(info, beta, cost_of_debt, default_tax_rate)} :
             ret' = [op |-> "calculate_wacc", beta |-> beta,
                     cost_of_debt |-> cost_of_debt, body |-> body,
                     val |-> WaccOrFallback(body)]
    /\ UNCHANGED <<info, cash_flow, price_data>>

DcfValuation ==
    /\ ret = Idle
    /\ \E hs \in StockHistories, hb \in BenchHistories,
          terminal_growth \in TerminalGrowths, years \in YearsArgs :
          \E run \in {dcf_valuation(info, cash_flow, hs, hb, default_growth_rate,
                                    terminal_growth, years)} :
             ret' = [op |-> "dcf_valuation", terminal_growth |-> terminal_growth,
                     years |-> years, val |-> run.val, calls |-> run.calls,
                     locals |-> run.locals]
    /\ UNCHANGED <<info, cash_flow, price_data>>

GetSummary ==
    /\ ret = Idle
    /\ \E h1s \in StockHistories, h1b \in BenchHistories,
          h2s \in StockHistories, h2b \in BenchHistories :
          \E run \in {get_summary(info, cash_flow, h1s, h1b, h2s, h2b)} :
             ret' = [op |-> "get_summary", val |-> run.val, calls |-> run.calls]
    /\ UNCHANGED <<info, cash_flow, price_data>>

\* the caller has taken the outcome of the call
Return ==
    /\ ret # Idle
    /\ ret' = Idle
    /\ UNCHANGED <<info, cash_flow, price_data>>

Next == \/ GetFinancialData
        \/ CalculateFinancialRatios
        \/ CalculateBeta
        \/ CalculateWacc
        \/ DcfValuation
        \/ GetSummary
        \/ Return

Spec == Init /\ [][Next]_vars

(***************************************************************************)
(* Properties.                                                             *)
(***************************************************************************)
\* the call ended with an exception reaching the caller
Raises(v) == DOMAIN v = {"t", "e"}

Fetched == info # Unset

\* the value is the finite number a/b
Is(v, a, b) == v.t = "num" /\ v.q = Q(a, b)

\* v compared with the integer k, for a number v other than nan
CmpInt(v, k) == IeeeCmp(v, Num(k, 1))

DcfFields == {"intrinsic_value", "enterprise_value", "equity_value", "current_fcff",
              "wacc", "margin_of_safety"}

\* the label that the thresholds of the summary orchestrator give a discount
LabelOf(d) ==
    CASE CmpInt(d, 20) > 0 -> "COMPRAR"
      [] CmpInt(d, 10) > 0 /\ CmpInt(d, 20) <= 0 -> "ACUMULAR"
      [] CmpInt(d, -20) < 0 -> "VENDER"
      [] CmpInt(d, -20) >= 0 /\ CmpInt(d, -10) < 0 -> "REDUZIR"
      [] CmpInt(d, -10) >= 0 /\ CmpInt(d, 10) <= 0 -> "NEUTRO"

\* C1: a summary that carries a recommendation carries the label that the
\* thresholds 20, 10, -10, -20 give its discount (20 -> ACUMULAR, 10 and -10
\* -> NEUTRO, -20 -> REDUZIR), and the discount is
\* (intrinsic_value - current_price) / current_price * 100
C1_RecommendationByDiscount ==
    (ret.op = "get_summary" /\ "recommendation" \in DOMAIN ret.val) =>
        LET d  == ret.val["discount"]
            iv == ret.val["intrinsic_value"]
            cp == InfoGet(info, "currentPrice", Num(0, 1))
        IN  /\ d.t # "nan"
            /\ ret.val["recommendation"] = Str(LabelOf(d))
            /\ (iv.t = "num" /\ cp.t = "num" /\ cp.q.s # 0) =>
                  /\ d.t = "num"
                  /\ QMul(d.q, cp.q) = QMul(QSub(iv.q, cp.q), Q(100, 1))

\* a summary whose discount is exactly -20 and whose label is REDUZIR
C1_Witness ==
    /\ ret.op = "get_summary"
    /\ "recommendation" \in DOMAIN ret.val
    /\ Is(ret.val["discount"], -20, 1)
    /\ ret.val["recommendation"] = Str("REDUZIR")

\* C2: with currentPrice zero or missing get_summary returns a summary that
\* has neither a discount nor a recommendation
C2_NoLabelWithoutPrice ==
    (/\ ret.op = "get_summary"
     /\ Fetched
     /\ \/ "currentPrice" \notin DOMAIN info
        \/ info["currentPrice"] = Num(0, 1))
    => /\ ~Raises(ret.val)
       /\ "discount" \notin DOMAIN ret.val
       /\ "recommendation" \notin DOMAIN ret.val

\* C3: when the wacc computed is at most terminal_growth, dcf_valuation
\* returns None
C3_TerminalGrowthGuard ==
    (/\ ret.op = "dcf_valuation"
     /\ "wacc" \in DOMAIN ret.locals
     /\ ret.locals.wacc.t # "nan"
     /\ IeeeCmp(ret.locals.wacc, ret.terminal_growth) <= 0)
    => ret.val = None

\* C4: when sharesOutstanding is zero or missing, dcf_valuation returns None
C4_SharesGuard ==
    (/\ ret.op = "dcf_valuation"
     /\ Fetched
     /\ \/ "sharesOutstanding" \notin DOMAIN info
        \/ info["sharesOutstanding"] = Num(0, 1))
    => ret.val = None

\* C5: dcf_valuation never raises, it returns None or a result; and when it
\* returned None inside get_summary on fetched data, the summary is returned
\* with the identity fields, the ratios computed and the beta triple, and
\* with no DCF field, no discount and no recommendation
C5_DcfFailureLocalized ==
    /\ ret.op = "dcf_valuation" =>
          (ret.val = None \/ DOMAIN ret.val = DcfFields)
    /\ (ret.op = "get_summary" /\ Fetched /\ ret.calls[1].ret = None) =>
          /\ ~Raises(ret.val)
          /\ {"company_name", "sector", "industry", "beta", "alpha", "r_squared"}
                \subseteq DOMAIN ret.val
          /\ LET ratios == ret.calls[Len(ret.calls) - 1].ret
             IN  \A k \in DOMAIN ratios :
                    k \in DOMAIN ret.val /\ ret.val[k] = ratios[k]
          /\ DOMAIN ret.val \cap (DcfFields \cup {"discount", "recommendation"}) = {}

\* a summary returned although the statement has no operating cash flow
C5_Witness ==
    /\ ret.op = "get_summary"
    /\ Fetched
    /\ cash_flow # EmptyDict
    /\ "Operating Cash Flow" \notin DOMAIN cash_flow
    /\ ret.calls[1].ret = None
    /\ "current_price" \in DOMAIN ret.val

\* C6: get_financial_data never returns an empty price series
C6_NoEmptyPriceSeries ==
    ret.op = "get_financial_data" => ret.val # NoRows

\* marketCap and totalDebt as calculate_wacc reads them for the weights
MarketCapRead == InfoGet(info, "marketCap", Num(1, 1))

TotalDebtRead == InfoGet(info, "totalDebt", Num(0, 1))

PositiveCapital ==
    /\ Fetched
    /\ MarketCapRead.t = "num"
    /\ TotalDebtRead.t = "num"
    /\ QAdd(MarketCapRead.q, TotalDebtRead.q).s > 0

WeightsAreShares ==
    /\ {"equity_weight", "debt_weight"} \subseteq DOMAIN ret.val
    /\ ret.val.equity_weight.t = "num"
    /\ ret.val.debt_weight.t = "num"
    /\ QAdd(ret.val.equity_weight.q, ret.val.debt_weight.q) = Q(1, 1)
    /\ QMul(ret.val.equity_weight.q, QAdd(MarketCapRead.q, TotalDebtRead.q))
          = MarketCapRead.q
    /\ ret.val.debt_weight.q = QSub(Q(1, 1), ret.val.equity_weight.q)

\* C7 as claimed: whenever market_cap + total_debt > 0, the result carries
\* the two weights, they sum to 1 and equity_weight is
\* market_cap / (market_cap + total_debt)
C7_WeightsAlways ==
    (ret.op = "calculate_wacc" /\ PositiveCapital) => WeightsAreShares

\* interestExpense is read: no cost of debt was passed, and totalDebt
\* (1 when missing) is positive
InterestRead ==
    /\ ret.cost_of_debt = None
    /\ LET total_debt == InfoGet(info, "totalDebt", Num(1, 1))
       IN  total_debt.t = "num" /\ total_debt.q.s > 0

\* C7 amended: the same, unless interestExpense is read and is null
C7_WeightsUnlessFallback ==
    (/\ ret.op = "calculate_wacc"
     /\ PositiveCapital
     /\ InterestRead => InfoGet(info, "interestExpense", Num(0, 1)) # None)
    => WeightsAreShares

\* weights computed from a snapshot without marketCap, where 1 is used
C7_Witness ==
    /\ ret.op = "calculate_wacc"
    /\ PositiveCapital
    /\ "marketCap" \notin DOMAIN info
    /\ "totalDebt" \in DOMAIN info
    /\ WeightsAreShares

\* C8: without a cost_of_debt argument the cost of debt returned is
\* interestExpense / totalDebt when totalDebt is present and positive, and
\* 0.06 when totalDebt is zero or missing
C8_CostOfDebtDefault ==
    (/\ ret.op = "calculate_wacc"
     /\ ret.cost_of_debt = None
     /\ Fetched
     /\ ~Raises(ret.body))
    => LET interest == InfoGet(info, "interestExpense", Num(0, 1))
       IN  IF "totalDebt" \notin DOMAIN info \/ info["totalDebt"] = Num(0, 1)
           THEN Is(ret.val.cost_of_debt, 6, 100)
           ELSE (info["totalDebt"].q.s > 0) =>
                   /\ ret.val.cost_of_debt.t = "num"
                   /\ QMul(ret.val.cost_of_debt.q, info["totalDebt"].q) = interest.q

\* C9: when the body of calculate_wacc raises, the call returns exactly
\* {wacc 0.09, cost_of_equity 0.10, cost_of_debt 0.06}; and the wacc that
\* dcf_valuation obtains from it is always a number
C9_WaccFallback ==
    /\ (ret.op = "calculate_wacc" /\ Raises(ret.body)) =>
          /\ DOMAIN ret.val = {"wacc", "cost_of_equity", "cost_of_debt"}
          /\ Is(ret.val.wacc, 9, 100)
          /\ Is(ret.val.cost_of_equity, 10, 100)
          /\ Is(ret.val.cost_of_debt, 6, 100)
    /\ (ret.op = "dcf_valuation" /\ ret.calls # << >>) =>
          /\ ret.calls[2].fn = "calculate_wacc"
          /\ "wacc" \in DOMAIN ret.calls[2].ret
          /\ IsNumber(ret.calls[2].ret.wacc)

\* the fallback returned after market_cap + total_debt = 0 raised
C9_Witness ==
    /\ ret.op = "calculate_wacc"
    /\ Raises(ret.body)
    /\ ret.body.e = "ZeroDivisionError"
    /\ Is(ret.val.wacc, 9, 100)

\* C10: when the equity value is zero and there are shares, dcf_valuation
\* returns its result with margin_of_safety not available (nan)
C10_ZeroIntrinsicValue ==
    (/\ ret.op = "dcf_valuation"
     /\ "equity_value" \in DOMAIN ret.locals
     /\ Is(ret.locals.equity_value, 0, 1)
     /\ ret.locals.shares.t = "num"
     /\ ret.locals.shares.q.s > 0)
    => /\ ret.val # None
       /\ DOMAIN ret.val = DcfFields
       /\ ret.val.margin_of_safety.t = "nan"

\* the metrics that calculate_financial_ratios looks up
RatioRows == 1..Len(RatioTable)

\* the metric is absent from the snapshot: no such key, or a null value
MetricAbsent(key) == key \notin DOMAIN info \/ info[key] = None

\* exactly one metric of the ratios is absent, the others are numbers
OneMetricAbsent ==
    /\ Fetched
    /\ Cardinality({i \in RatioRows : MetricAbsent(RatioTable[i][2])}) = 1
    /\ \A i \in RatioRows :
          ~MetricAbsent(RatioTable[i][2]) => info[RatioTable[i][2]].t = "num"

\* the ratio is marked not available
NotAvailable(v) == v.t \in {"nan", "none"}

\* the ratio of row i has the value computed from its metric
RatioComputed(v, i) ==
    /\ v.t = "num"
    /\ v.q = IF RatioTable[i][3] = "plain" THEN info[RatioTable[i][2]].q
             ELSE QMul(info[RatioTable[i][2]].q, Q(100, 1))

\* C11: when exactly one metric is absent (key missing or null), the ratios
\* returned have an entry for every ratio name, the ratio of the absent
\* metric is not available, and every other ratio has its computed value
C11_AbsentMetricLocal ==
    (ret.op = "calculate_financial_ratios" /\ OneMetricAbsent) =>
        /\ DOMAIN ret.val = {RatioTable[i][1] : i \in RatioRows}
        /\ \A i \in RatioRows :
              IF MetricAbsent(RatioTable[i][2])
              THEN NotAvailable(ret.val[RatioTable[i][1]])
              ELSE RatioComputed(ret.val[RatioTable[i][1]], i)

\* equity_value = enterprise_value - (total_debt - cash); for an infinite or
\* nan enterprise value the equity value is of the same kind
EquityIdentity(result, total_debt, cash) ==
    /\ total_debt.t = "num"
    /\ cash.t = "num"
    /\ IF result.enterprise_value.t = "num"
       THEN /\ result.equity_value.t = "num"
            /\ QAdd(result.equity_value.q, QSub(total_debt.q, cash.q))
                  = result.enterprise_value.q
       ELSE result.equity_value.t = result.enterprise_value.t

\* intrinsic_value * shares = equity_value
PerShareIdentity(result, shares) ==
    /\ shares.t = "num"
    /\ IF result.equity_value.t = "num"
       THEN /\ result.intrinsic_value.t = "num"
            /\ QMul(result.intrinsic_value.q, shares.q) = result.equity_value.q
       ELSE IeeeMul(result.intrinsic_value, shares, TRUE).t = result.equity_value.t

\* C12: every result that dcf_valuation returns has
\* equity_value = enterprise_value - (totalDebt - cash), a missing totalDebt
\* or cash taken as 0, and intrinsic_value * sharesOutstanding = equity_value
\* (a missing sharesOutstanding read as the 1 that line 211 divides by)
C12_EquityIdentities ==
    (ret.op = "dcf_valuation" /\ ret.val # None) =>
        /\ EquityIdentity(ret.val, InfoGet(info, "totalDebt", Num(0, 1)),
                          InfoGet(info, "cash", Num(0, 1)))
        /\ PerShareIdentity(ret.val, InfoGet(info, "sharesOutstanding", Num(1, 1)))

\* the calls to fn logged in a run
CallsTo(calls, fn) == {i \in 1..Len(calls) : calls[i].fn = fn}

\* C13: in a get_summary call that returns a summary, calculate_beta runs
\* exactly once, and the beta of the summary is the beta that was passed to
\* calculate_wacc
C13_BetaComputedOnce ==
    (ret.op = "get_summary" /\ ~Raises(ret.val)) =>
        /\ Cardinality(CallsTo(ret.calls, "calculate_beta")) = 1
        /\ \A i \in CallsTo(ret.calls, "calculate_wacc") :
              ret.calls[i].beta = ret.val.beta

\* C14: calculate_financial_ratios, calculate_beta, calculate_wacc and
\* dcf_valuation never raise, whether or not get_financial_data has run:
\* they return a ratio mapping (empty before the fetch), a beta triple (the
\* neutral default when a price fetch gave no rows), a WACC dict (the fixed
\* default before the fetch) and a DCF result or None (None before the
\* fetch)
C14_StagesNeverRaise ==
    /\ ret.op = "calculate_financial_ratios" =>
          /\ ~Raises(ret.val)
          /\ DOMAIN ret.val \subseteq {RatioTable[i][1] : i \in RatioRows}
          /\ ~Fetched => ret.val = EmptyDict
    /\ ret.op = "calculate_beta" =>
          /\ DOMAIN ret.val = {"beta", "alpha", "r_squared"}
          /\ (ret.hist_stock = NoRows \/ ret.hist_bench = NoRows) =>
                /\ Is(ret.val.beta, 1, 1)
                /\ Is(ret.val.alpha, 0, 1)
                /\ Is(ret.val.r_squared, 0, 1)
    /\ ret.op = "calculate_wacc" =>
          /\ {"wacc", "cost_of_equity", "cost_of_debt"} \subseteq DOMAIN ret.val
          /\ ~Fetched => ret.val = WaccFallback
    /\ ret.op = "dcf_valuation" =>
          /\ ~Raises(ret.val)
          /\ ~Fetched => ret.val = None

\* the ratios asked for before any fetch: the empty mapping is returned
C14_Witness ==
    /\ ret.op = "calculate_financial_ratios"
    /\ ~Fetched
    /\ ret.val = EmptyDict

====
